---- MODULE Spec2Model ----
(***************************************************************************)
(* Allocation and pricing engine of the tenk NFT minter contract           *)
(* (contracts/tenk/src/lib.rs, views.rs, user.rs).                         *)
(*                                                                         *)
(* One action per contract call.  A call that panics is reverted by the    *)
(* host: the action then leaves the contract state as it was and only      *)
(* records the failed outcome in `last`.                                   *)
(***************************************************************************)
EXTENDS Integers, Sequences, FiniteSets, TLC

(* ------------------------------ bounds -------------------------------- *)
\* identifiers in the pool beyond the first price generation
Extra == 2
\* successful small batches explored before the first generation is sold
MaxEarly == 1
\* callbacks delivered again for one attempt
MaxDuplicates == 1
\* pool sizes for which the sale phase is computed
MaxPool == 2
\* collection size and batch sizes for which prices are computed
PriceSize == 660
MaxBatch == 3
\* batches of a regular account explored after the owner's batch of the scenario
ScenarioMints == 3
\* deferred (linkdrop) attempts explored in one behaviour
MaxAttempts == 2
\* the clock runs from 0 to MaxTime
MaxTime == 3
\* block entropy values 0..MaxSeed
MaxSeed == 1

\* largest deposit balance an account builds up
MaxDeposit == 590

(* ------------------------- program constants -------------------------- *)
GEN1 == 555
\* size passed to Contract::new
Size == GEN1 + Extra
TECH_BACKUP_OWNER == "willem.near"
owner_id == "owner.near"
Users == {"alice.near"}
Accounts == {owner_id, TECH_BACKUP_OWNER} \cup Users

\* constructor arguments of the cheddar asset
cheddar_near == 300
cheddar_boost == 90
\* decimals of the asset, and the storage bytes one minted token takes
token_decimals == 2
StoragePerToken == 10
storage_byte_cost == 1

(* ------------------------------ options ------------------------------- *)
None == << >>
Some(v) == << v >>
is_some(o) == o # << >>
unwrap(o) == o[1]
unwrap_or(o, d) == IF o = << >> THEN d ELSE o[1]
min(a, b) == IF a < b THEN a ELSE b

(* ------------------------------- state -------------------------------- *)
VARIABLES
  raffle,            \* Raffle: the array of identifiers not yet drawn
  tokens,            \* NonFungibleToken: how many tokens the registry holds
  pending_tokens,    \* u32
  counter,           \* u32
  whitelist,         \* LookupMap<AccountId, u32>
  cheddar_deposits,  \* LookupMap<AccountId, u128>
  sale,              \* Sale, fixed at construction
  now,               \* current_time_ms()
  attempts,          \* deferred attempts and the callbacks they still expect
  mints,             \* successful mints before the first generation was sold
  overflow_checks,   \* whether the build traps on integer overflow
  last               \* the last call: its name, whether it returned, what it paid out

vars == << raffle, tokens, pending_tokens, counter, whitelist, cheddar_deposits,
           sale, now, attempts, mints, overflow_checks, last >>

contract == << raffle, tokens, pending_tokens, counter, whitelist, cheddar_deposits >>

(* ----------------- unsigned integers of fixed width ------------------- *)
\* A value v >= 0 stands for itself; v < 0 stands for 2^w + v, the result of
\* a subtraction that wrapped.  All magnitudes in the model are far below 2^31.
ULt(a, b) == IF (a >= 0) = (b >= 0) THEN a < b ELSE b < 0
UGe(a, b) == ~ULt(a, b)
UGt(a, b) == ULt(b, a)
\* `a - b` traps in a build with overflow checks and wraps in one without
sub_overflows(a, b) == ULt(a, b)
add_overflows(a, b) == (a < 0 /\ b < 0) \/ (a < 0 /\ b >= 0 /\ a + b >= 0)
                          \/ (b < 0 /\ a >= 0 /\ a + b >= 0)

(* --------------------- the call in progress --------------------------- *)
\* The contract state a call works on, with what the call has produced so far.
Self ==
  [ raffle |-> raffle, tokens |-> tokens, pending_tokens |-> pending_tokens,
    counter |-> counter, whitelist |-> whitelist,
    cheddar_deposits |-> cheddar_deposits,
    panic |-> FALSE, why |-> "", num |-> 0, ids |-> << >>, refund |-> 0, paid |-> 0 ]

\* env::panic_str(msg), and every other way a call traps
Panic(self, msg) == IF self.panic THEN self ELSE [self EXCEPT !.panic = TRUE, !.why = msg]
\* require!(cond, msg)
Require(self, cond, msg) == IF cond THEN self ELSE Panic(self, msg)

(* ------------------------------ Raffle -------------------------------- *)
\* The array of identifiers not yet drawn, slots 0..len-1.  It starts as
\* 0, 1, .., size-1 and is held as its length with the slots whose content
\* differs from their index.
raffle_new(size) == [ len |-> size, ids |-> << >> ]
raffle_get(r, i) == IF i + 1 \in DOMAIN r.ids THEN r.ids[i + 1] ELSE i

raffle_set(r, i, v) ==
  [ k \in (DOMAIN r.ids) \cup {i + 1} |-> IF k = i + 1 THEN v ELSE r.ids[k] ]

\* swap-remove of slot i: the last element moves into slot i, the array shrinks
swap_remove(r, i) ==
  LET last_slot == r.len - 1
      kept == [ k \in (DOMAIN r.ids) \ {last_slot + 1} |-> r.ids[k] ]
  IN  IF i = last_slot THEN [ len |-> last_slot, ids |-> kept ]
      ELSE [ len |-> last_slot,
             ids |-> raffle_set([ len |-> last_slot, ids |-> kept ], i,
                                raffle_get(r, last_slot)) ]

\* Raffle::draw with the entropy of the block: [id, raffle]
raffle_draw(r, seed) ==
  LET i == seed % r.len
  IN  [ id |-> raffle_get(r, i), raffle |-> swap_remove(r, i) ]

\* NonFungibleToken::internal_mint_with_refund: records the token for its owner
registry_mint(self, id) ==
  [self EXCEPT !.tokens = @ + 1, !.ids = Append(@, id)]

\* draw_and_mint with a raffle that shrinks without moving its last identifier
\* into the slot of the drawn one
draw_and_mint_as(self, seed) ==
  IF self.panic THEN self
  ELSE IF self.raffle.len = 0 THEN Panic(self, "Exhausted")
  ELSE LET d == raffle_draw(self.raffle, seed)
       IN  registry_mint([self EXCEPT !.raffle.len = d.raffle.len], d.id)

draw_and_mint(self, seed) ==
  IF self.panic THEN self
  ELSE IF self.raffle.len = 0 THEN Panic(self, "Exhausted")
  ELSE LET d == raffle_draw(self.raffle, seed)
       IN  registry_mint([self EXCEPT !.raffle = d.raffle], d.id)

(* ------------------------------- views -------------------------------- *)
is_owner(minter) == minter = owner_id \/ minter = TECH_BACKUP_OWNER

\* tokens_left without the slots promised to deferred attempts
tokens_left_as(self) == self.raffle.len

tokens_left(self) == self.raffle.len - self.pending_tokens
tokens_left_traps(self) ==
  overflow_checks /\ sub_overflows(self.raffle.len, self.pending_tokens)

\* get_status with phases that open at their start instead of after it
get_status_as(self) ==
  IF self.raffle.len - self.pending_tokens = 0 THEN "SoldOut"
  ELSE IF is_some(sale.public_sale_start) /\ unwrap(sale.public_sale_start) <= now
       THEN "Open"
  ELSE IF is_some(sale.presale_start) /\ unwrap(sale.presale_start) <= now
       THEN "Presale"
  ELSE "Closed"

get_status(self) ==
  IF tokens_left(self) = 0 THEN "SoldOut"
  ELSE IF is_some(sale.public_sale_start) /\ unwrap(sale.public_sale_start) < now
       THEN "Open"
  ELSE IF is_some(sale.presale_start) /\ unwrap(sale.presale_start) < now
       THEN "Presale"
  ELSE "Closed"

is_presale(self) == get_status(self) = "Presale"
has_allowance(self) == is_some(sale.allowance) \/ is_presale(self)

(* ------------------------------ pricing ------------------------------- *)
RECURSIVE price_loop(_, _, _)
\* the `while num > 0` loop of compute_price
price_loop(num, p, cost) ==
  IF num > 0
  THEN IF num < 100 THEN cost + num * p
       ELSE price_loop(num - 100, p + 1, cost + 100 * p)
  ELSE cost

\* [trap, v].  `num -= gen1` underflows when the batch ends inside the first
\* generation: a build with overflow checks traps there; a build without wraps
\* num to at least 2^32 - 554 and the loop then runs more than 4 * 10^7 rounds,
\* which no call has the gas for.  Either way the call aborts.
compute_price(c, num, start_price) ==
  IF c < GEN1
  THEN LET gen1 == GEN1 - c
       IN  IF sub_overflows(num, gen1) THEN [ trap |-> TRUE, v |-> 0 ]
           ELSE [ trap |-> FALSE,
                  v |-> price_loop(num - gen1, start_price + GEN1 \div 100,
                                   gen1 * start_price) ]
  ELSE [ trap |-> FALSE, v |-> price_loop(num, start_price + c \div 100, 0) ]

price(self, num) ==
  LET p == IF get_status(self) \in {"Presale", "Closed"}
           THEN unwrap_or(sale.presale_price, sale.price)
           ELSE sale.price
      c == compute_price(self.counter, num, p)
  IN  [ c EXCEPT !.trap = @ \/ tokens_left_traps(self) ]

minting_cost(self, minter, num) ==
  IF is_owner(minter) THEN [ trap |-> FALSE, v |-> 0 ] ELSE price(self, num)

\* the conversion with the native cost multiplied before it is divided
cost_in_token_as(cost, token_near, token_boost) ==
  (((cost * token_near) \div 1000) \div 100) * token_boost

\* cost / 1000 * token_near / 100 * token_boost, left to right
cost_in_token(cost, token_near, token_boost) ==
  (((cost \div 1000) * token_near) \div 100) * token_boost

total_cost(self, num, minter, with_token) ==
  LET c == minting_cost(self, minter, num)
  IN  IF with_token
      THEN [ c EXCEPT !.v = cost_in_token(@, cheddar_near, cheddar_boost) ]
      ELSE c

(* ----------------------------- settlement ----------------------------- *)
\* Royalties::send_funds: the settled cost goes to the royalty interface
send_funds(self, cost) == [self EXCEPT !.paid = cost]

\* charge_user without the transfer of the refund
charge_user_as(self, num, user, with_cheddar, storage_used, attached) ==
  IF self.panic THEN self
  ELSE
  LET storage_cost == storage_byte_cost * storage_used
      near_left == attached - storage_cost
      deposit == IF with_cheddar THEN unwrap_or(self.cheddar_deposits[user], 0)
                 ELSE near_left
      tc == total_cost(self, num, user, with_cheddar)
      cost == tc.v
      new_deposit == deposit - cost
      charged ==
        IF with_cheddar
        THEN [self EXCEPT !.cheddar_deposits[user] =
                            IF new_deposit = 0 THEN None ELSE Some(new_deposit)]
        ELSE self
  IN  IF (overflow_checks /\ sub_overflows(attached, storage_cost)) \/ tc.trap
      THEN Panic(self, "attempt to subtract with overflow")
      ELSE IF ULt(deposit, cost) THEN Panic(self, "Not enough deposit to buy")
      ELSE IF is_some(sale.initial_royalties) THEN send_funds(charged, cost) ELSE charged

charge_user(self, num, user, with_cheddar, storage_used, attached) ==
  IF self.panic THEN self
  ELSE
  LET storage_cost == storage_byte_cost * storage_used
      near_left == attached - storage_cost
      deposit == IF with_cheddar THEN unwrap_or(self.cheddar_deposits[user], 0)
                 ELSE near_left
      tc == total_cost(self, num, user, with_cheddar)
      cost == tc.v
      refund0 == IF with_cheddar THEN near_left ELSE near_left - cost
      new_deposit == deposit - cost
      charged ==
        IF with_cheddar
        THEN [self EXCEPT !.cheddar_deposits[user] =
                            IF new_deposit = 0 THEN None ELSE Some(new_deposit)]
        ELSE self
      settled ==
        IF is_some(sale.initial_royalties) THEN send_funds(charged, cost) ELSE charged
      refund_near ==
        IF ~is_some(sale.initial_royalties) /\ ~with_cheddar THEN refund0 + cost
        ELSE refund0
  IN  IF overflow_checks /\ sub_overflows(attached, storage_cost)
      THEN Panic(self, "attempt to subtract with overflow")
      ELSE IF tc.trap
           THEN Panic(self, IF overflow_checks THEN "attempt to subtract with overflow"
                            ELSE "Exceeded the prepaid gas")
      ELSE IF ULt(deposit, cost) THEN Panic(self, "Not enough deposit to buy")
      \* a deposit below the storage cost wraps near_left in a build without
      \* overflow checks; the transfer of the wrapped refund exceeds the balance
      \* of the contract and fails the call
      ELSE IF refund_near < 0 THEN Panic(self, "Exceeded the account balance")
      ELSE [settled EXCEPT !.refund = IF UGt(refund_near, 1) THEN refund_near ELSE 0]

RECURSIVE mint_each(_, _, _)
\* (0..num).map(|_| self.draw_and_mint(..)): n draws one after the other (the
\* run of n draws is evaluated as two consecutive runs of half the length)
mint_each(self, n, seed) ==
  IF n = 0 \/ self.panic THEN self
  ELSE IF n = 1 THEN draw_and_mint(self, seed)
  ELSE LET first == mint_each(self, n \div 2, seed)
       IN  mint_each(first, n - n \div 2, seed)

\* nft_mint_many_ungaurded without `self.counter += num`
nft_mint_many_ungaurded_as(self, num, user, mint_for_free, with_cheddar, attached, seed) ==
  LET minted == mint_each(self, num, seed)
  IN  IF mint_for_free THEN minted
      ELSE charge_user(minted, num, user, with_cheddar, num * StoragePerToken, attached)

nft_mint_many_ungaurded(self, num, user, mint_for_free, with_cheddar, attached, seed) ==
  LET minted == mint_each(self, num, seed)
      charged == IF mint_for_free THEN minted
                 ELSE charge_user(minted, num, user, with_cheddar,
                                  num * StoragePerToken, attached)
  IN  IF charged.panic THEN charged
      ELSE [charged EXCEPT !.counter = @ + num]

(* ------------------------------ allowance ----------------------------- *)
get_whitelist_allowance_missing(self, account_id) == ~is_some(self.whitelist[account_id])
get_whitelist_allowance(self, account_id) == unwrap_or(self.whitelist[account_id], 0)

\* get_or_add_whitelist_allowance seeding the entry with the requested count
get_or_add_whitelist_allowance_as(self, account_id, num) ==
  IF ~is_some(sale.allowance) THEN [ self |-> self, allowance |-> num ]
  ELSE IF is_some(self.whitelist[account_id])
       THEN [ self |-> self, allowance |-> unwrap(self.whitelist[account_id]) ]
  ELSE [ self |-> [self EXCEPT !.whitelist[account_id] = Some(num)],
         allowance |-> num ]

\* [self, allowance]: seeds the entry when a cap is configured and none exists
get_or_add_whitelist_allowance(self, account_id, num) ==
  IF ~is_some(sale.allowance) THEN [ self |-> self, allowance |-> num ]
  ELSE IF is_some(self.whitelist[account_id])
       THEN [ self |-> self, allowance |-> unwrap(self.whitelist[account_id]) ]
  ELSE [ self |-> [self EXCEPT !.whitelist[account_id] = sale.allowance],
         allowance |-> unwrap(sale.allowance) ]

use_whitelist_allowance(self, account_id, num) ==
  IF self.panic THEN self
  ELSE IF tokens_left_traps(self) /\ ~is_some(sale.allowance)
       THEN Panic(self, "attempt to subtract with overflow")
  ELSE IF has_allowance(self) /\ ~is_owner(account_id)
       THEN IF get_whitelist_allowance_missing(self, account_id)
            THEN Panic(self, "Account not on whitelist")
            ELSE LET allowance == get_whitelist_allowance(self, account_id)
                     new_allowance == allowance - min(num, allowance)
                 IN  [self EXCEPT !.whitelist[account_id] = Some(new_allowance)]
  ELSE self

\* assert_can_mint with the phase gate applied to every account
assert_can_mint_as(self, account_id, num) ==
  LET status == get_status(self)
  IN  IF status = "SoldOut" THEN Panic(self, "No NFTs left to mint")
      ELSE IF status = "Closed" THEN Panic(self, "Contract currently closed")
      ELSE Require([self EXCEPT !.num = num], tokens_left(self) >= num,
                   "Not NFTs left to mint")

\* assert_can_mint granting what is left of a batch larger than the supply
assert_can_mint_clamped(self, account_id, num) ==
  LET gated ==
        IF is_owner(account_id) THEN [self EXCEPT !.num = num]
        ELSE LET status == get_status(self)
             IN  IF status = "SoldOut" THEN Panic(self, "No NFTs left to mint")
                 ELSE IF status = "Closed" THEN Panic(self, "Contract currently closed")
                 ELSE IF status = "Presale" /\ get_whitelist_allowance_missing(self, account_id)
                      THEN Panic(self, "Account not on whitelist")
                 ELSE LET a == IF status = "Presale"
                               THEN [ self |-> self,
                                      allowance |-> get_whitelist_allowance(self, account_id) ]
                               ELSE get_or_add_whitelist_allowance(self, account_id, num)
                          n == min(a.allowance, num)
                      IN  Require([a.self EXCEPT !.num = n], n > 0,
                                  "Account has no more allowance left")
  IN  IF gated.panic THEN gated
      ELSE [gated EXCEPT !.num = min(@, tokens_left(gated))]

\* the granted count is left in self.num
assert_can_mint(self, account_id, num) ==
  LET gated ==
        IF is_owner(account_id) THEN [self EXCEPT !.num = num]
        ELSE IF tokens_left_traps(self)
             THEN Panic(self, "attempt to subtract with overflow")
        ELSE LET status == get_status(self)
             IN  IF status = "SoldOut" THEN Panic(self, "No NFTs left to mint")
                 ELSE IF status = "Closed" THEN Panic(self, "Contract currently closed")
                 ELSE IF status = "Presale" /\ get_whitelist_allowance_missing(self, account_id)
                      THEN Panic(self, "Account not on whitelist")
                 ELSE LET a == IF status = "Presale"
                               THEN [ self |-> self,
                                      allowance |-> get_whitelist_allowance(self, account_id) ]
                               ELSE get_or_add_whitelist_allowance(self, account_id, num)
                          n == min(a.allowance, num)
                      IN  Require([a.self EXCEPT !.num = n], n > 0,
                                  "Account has no more allowance left")
  IN  IF gated.panic THEN gated
      ELSE IF tokens_left_traps(gated)
           THEN Panic(gated, "attempt to subtract with overflow")
      ELSE Require(gated, UGe(tokens_left(gated), gated.num), "Not NFTs left to mint")

(* --------------------------- contract calls --------------------------- *)
\* the arguments and the attached deposit of a call
Args(signer, with_cheddar, num, attached) ==
  [ signer |-> signer, with_cheddar |-> with_cheddar, num |-> num,
    attached |-> attached ]

Idle == [ op |-> "idle", args |-> Args("", FALSE, 0, 0), ok |-> TRUE, why |-> "",
          ids |-> << >>, value |-> << >>, refund |-> 0, paid |-> 0 ]

\* a host that keeps what a call wrote before it panicked
Commit_as(self, op, args) ==
  /\ raffle' = self.raffle
  /\ tokens' = self.tokens
  /\ pending_tokens' = self.pending_tokens
  /\ counter' = self.counter
  /\ whitelist' = self.whitelist
  /\ cheddar_deposits' = self.cheddar_deposits
  /\ last' = [ op |-> op, args |-> args, ok |-> ~self.panic, why |-> self.why,
               ids |-> << >>, value |-> << >>, refund |-> 0, paid |-> 0 ]

\* The host commits what a call did when it returns and reverts it when it
\* panics; either way the caller sees the outcome.
Commit(self, op, args) ==
  /\ raffle' = IF self.panic THEN raffle ELSE self.raffle
  /\ tokens' = IF self.panic THEN tokens ELSE self.tokens
  /\ pending_tokens' = IF self.panic THEN pending_tokens ELSE self.pending_tokens
  /\ counter' = IF self.panic THEN counter ELSE self.counter
  /\ whitelist' = IF self.panic THEN whitelist ELSE self.whitelist
  /\ cheddar_deposits' = IF self.panic THEN cheddar_deposits ELSE self.cheddar_deposits
  /\ last' = [ op |-> op, args |-> args, ok |-> ~self.panic, why |-> self.why,
               ids |-> IF self.panic THEN << >> ELSE self.ids,
               value |-> << >>,
               refund |-> IF self.panic THEN 0 ELSE self.refund,
               paid |-> IF self.panic THEN 0 ELSE self.paid ]

\* the caller has taken the outcome of the last call; the next call can start
Return ==
  /\ last # Idle
  /\ last' = Idle
  /\ UNCHANGED << contract, sale, now, attempts, mints, overflow_checks >>

\* the whole of nft_mint_many, as one call
nft_mint_many_call(self, signer, with_cheddar, num, attached, seed) ==
  LET limited == IF is_some(sale.mint_rate_limit)
                 THEN Require(self, num <= unwrap(sale.mint_rate_limit), "over mint limit")
                 ELSE self
      gated == IF limited.panic THEN limited ELSE assert_can_mint(limited, signer, num)
      minted == IF gated.panic THEN gated
                ELSE nft_mint_many_ungaurded(gated, gated.num, signer, FALSE,
                                             with_cheddar, attached, seed)
  IN  use_whitelist_allowance(minted, signer, gated.num)

\* mints counts the successful mints made before the first generation is sold
early_mint(self) == IF ~self.panic /\ counter < GEN1 THEN 1 ELSE 0

nft_mint_many(signer, with_cheddar, num, attached, seed) ==
  /\ last = Idle
  /\ LET done == nft_mint_many_call(Self, signer, with_cheddar, num, attached, seed)
     IN  /\ Commit(done, "nft_mint_many", Args(signer, with_cheddar, num, attached))
         /\ mints' = mints + early_mint(done)
  /\ UNCHANGED << sale, now, attempts, overflow_checks >>

\* a batch of a few units
small_batch(signer, with_cheddar, num, attached, seed) ==
  /\ counter >= GEN1 \/ mints < MaxEarly
  /\ nft_mint_many(signer, with_cheddar, num, attached, seed)

\* nothing has been minted or reserved yet
Pristine ==
  /\ counter = 0 /\ pending_tokens = 0
  /\ \A a \in DOMAIN attempts : attempts[a].status = "none"

\* a batch of GEN1 units, explored as the first mint after construction
first_generation_batch(signer, attached) ==
  /\ Pristine
  /\ nft_mint_many(signer, FALSE, GEN1, attached, 0)

\* one_token of the asset
get_one_token_in_yocto == 10 ^ token_decimals

ft_on_transfer_call(self, sender_id, amount) ==
  IF is_some(self.cheddar_deposits[sender_id])
  THEN [self EXCEPT !.cheddar_deposits[sender_id] = Some(unwrap(@) + amount)]
  ELSE Require([self EXCEPT !.cheddar_deposits[sender_id] = Some(amount)],
               amount >= get_one_token_in_yocto,
               "deposit amount must be at least 0.1 of token")

\* deposits are explored before the first mint
ft_on_transfer(sender_id, amount) ==
  /\ last = Idle
  /\ Pristine
  /\ unwrap_or(cheddar_deposits[sender_id], 0) + amount <= MaxDeposit
  /\ Commit(ft_on_transfer_call(Self, sender_id, amount), "ft_on_transfer",
            Args(sender_id, TRUE, amount, 0))
  /\ UNCHANGED << sale, now, attempts, mints, overflow_checks >>

\* withdraw_token that keeps the entry of an account that withdraws all of it
withdraw_token_call_as(self, user, amount) ==
  IF ~is_some(self.cheddar_deposits[user]) THEN Panic(self, "account deposit is empty")
  ELSE LET deposit == unwrap(self.cheddar_deposits[user])
           taken == unwrap_or(amount, deposit)
       IN  IF deposit < taken THEN Panic(self, "not enough deposit")
           ELSE [self EXCEPT !.cheddar_deposits[user] = Some(deposit - taken),
                             !.refund = deposit - taken]

\* the amount handed to ext_ft::ft_transfer is left in self.refund
withdraw_token_call(self, user, amount) ==
  IF ~is_some(self.cheddar_deposits[user]) THEN Panic(self, "account deposit is empty")
  ELSE LET deposit == unwrap(self.cheddar_deposits[user])
       IN  IF ~is_some(amount)
           THEN [self EXCEPT !.cheddar_deposits[user] = None, !.refund = deposit]
           ELSE IF deposit < unwrap(amount) THEN Panic(self, "not enough deposit")
           ELSE IF deposit = unwrap(amount)
                THEN [self EXCEPT !.cheddar_deposits[user] = None, !.refund = deposit]
           ELSE LET left == deposit - unwrap(amount)
                IN  Require([self EXCEPT !.cheddar_deposits[user] = Some(left),
                                         !.refund = left],
                            left > get_one_token_in_yocto,
                            "When withdrawing, either withdraw everyting to unregister or keep at least 1 Token")

\* value: the requested amount and the amount sent to the account;
\* withdrawals are explored once minting has started
withdraw_token(user, amount) ==
  /\ last = Idle
  /\ ~Pristine
  /\ LET done == withdraw_token_call(Self, user, amount)
     IN  /\ cheddar_deposits' = IF done.panic THEN cheddar_deposits
                                ELSE done.cheddar_deposits
         /\ last' = [ Idle EXCEPT !.op = "withdraw_token",
                                  !.args = Args(user, TRUE, 0, 0),
                                  !.ok = ~done.panic, !.why = done.why,
                                  !.value = IF done.panic THEN << amount >>
                                            ELSE << amount, done.refund >> ]
  /\ UNCHANGED << raffle, tokens, pending_tokens, counter, whitelist, sale, now,
                  attempts, mints, overflow_checks >>

\* owner call that puts an account on the whitelist with an allowance;
\* explored before the first mint
add_whitelist_account(account_id, allowance) ==
  /\ last = Idle
  /\ Pristine
  /\ ~is_some(whitelist[account_id])
  /\ Commit([Self EXCEPT !.whitelist[account_id] = Some(allowance)],
            "add_whitelist_accounts", Args(owner_id, FALSE, allowance, 0))
  /\ UNCHANGED << sale, now, attempts, mints, overflow_checks >>

\* time passes between calls, up to the moment every configured start is past
Tick ==
  /\ last = Idle
  /\ now < MaxTime
  /\ \/ is_some(sale.presale_start) /\ now <= unwrap(sale.presale_start)
     \/ is_some(sale.public_sale_start) /\ now <= unwrap(sale.public_sale_start)
  /\ now' = now + 1
  /\ UNCHANGED << contract, sale, attempts, mints, overflow_checks, last >>

(* -------------------------- deferred attempts ------------------------- *)
\* pending_tokens -= 1
pending_decrement(self) ==
  IF overflow_checks /\ sub_overflows(self.pending_tokens, 1)
  THEN Panic(self, "attempt to subtract with overflow")
  ELSE [self EXCEPT !.pending_tokens = @ - 1]

\* issuing that takes the reserved identifier out of the pool
create_linkdrop_call_as(self, signer) ==
  LET gated == assert_can_mint(self, signer, 1)
      reserved == IF gated.panic THEN gated
                  ELSE [gated EXCEPT !.pending_tokens = @ + 1, !.raffle.len = @ - 1]
  IN  use_whitelist_allowance(reserved, signer, 1)

\* Issuing a deferred attempt: gate one unit, then reserve its slot.
create_linkdrop_call(self, signer) ==
  LET gated == assert_can_mint(self, signer, 1)
      reserved == IF gated.panic THEN gated
                  ELSE IF overflow_checks /\ add_overflows(gated.pending_tokens, 1)
                       THEN Panic(gated, "attempt to add with overflow")
                  ELSE [gated EXCEPT !.pending_tokens = @ + 1]
  IN  use_whitelist_allowance(reserved, signer, 1)

create_linkdrop(a, signer, attached) ==
  /\ last = Idle
  /\ attempts[a].status = "none"
  /\ \A b \in 1..(a - 1) : attempts[b].status # "none"
  /\ LET done == create_linkdrop_call(Self, signer)
     IN  /\ Commit(done, "create_linkdrop", Args(signer, FALSE, 1, attached))
         /\ attempts' = IF done.panic THEN attempts
                        ELSE [attempts EXCEPT ![a] =
                               [ status |-> "issued", signer |-> signer,
                                 amount |-> attached, mint_for_free |-> is_owner(signer),
                                 dec |-> 0, extra |-> 0 ]]
  /\ UNCHANGED << sale, now, mints, overflow_checks >>

\* on_send_with_callback without the refund
on_send_with_callback_call_as(self, promise_success, attached) ==
  IF ~promise_success THEN pending_decrement(self) ELSE self

on_send_with_callback_call(self, promise_success, attached) ==
  IF ~promise_success
  THEN LET released == pending_decrement(self)
       IN  IF released.panic THEN released
           ELSE [released EXCEPT !.refund = IF attached > 0 THEN attached ELSE 0]
  ELSE self

\* link_callback that settles the mint whatever mint_for_free says
link_callback_call_as(self, account_id, mint_for_free, promise_success, attached, seed) ==
  IF promise_success
  THEN LET released == pending_decrement(self)
       IN  IF released.panic THEN released
           ELSE nft_mint_many_ungaurded(released, 1, account_id, FALSE,
                                        FALSE, attached, seed)
  ELSE Panic(self, "Promise before Linkdrop callback failed")

link_callback_call(self, account_id, mint_for_free, promise_success, attached, seed) ==
  IF promise_success
  THEN LET released == pending_decrement(self)
       IN  IF released.panic THEN released
           ELSE nft_mint_many_ungaurded(released, 1, account_id, mint_for_free,
                                        FALSE, attached, seed)
  ELSE Panic(self, "Promise before Linkdrop callback failed")

\* the callback of the asynchronous operation of attempt a
on_send_with_callback(a, promise_success) ==
  /\ last = Idle
  /\ attempts[a].status = "issued"
  /\ LET done == on_send_with_callback_call(Self, promise_success, attempts[a].amount)
     IN  /\ Commit(done, "on_send_with_callback",
                   Args(attempts[a].signer, FALSE, 1, attempts[a].amount))
         /\ attempts' = [attempts EXCEPT
                           ![a].status = IF promise_success THEN "sent"
                                         ELSE IF done.panic THEN "aborted"
                                         ELSE "compensated",
                           ![a].dec = IF promise_success \/ done.panic THEN @ ELSE @ + 1]
  /\ UNCHANGED << sale, now, mints, overflow_checks >>

\* the callback that grants the item of attempt a once its operation succeeded;
\* after a failed operation it sees the failure and panics
link_callback(a, account_id, promise_success, seed) ==
  /\ last = Idle
  /\ \/ attempts[a].status = "sent" /\ promise_success
     \/ attempts[a].status = "compensated" /\ ~promise_success
  /\ LET done == link_callback_call(Self, account_id, attempts[a].mint_for_free,
                                    promise_success, attempts[a].amount, seed)
     IN  /\ Commit(done, "link_callback",
                   Args(account_id, FALSE, 1, attempts[a].amount))
         /\ attempts' = IF ~promise_success THEN attempts
                        ELSE [attempts EXCEPT
                               ![a].status = IF done.panic THEN "aborted" ELSE "completed",
                               ![a].dec = IF done.panic THEN @ ELSE @ + 1]
         /\ mints' = mints + early_mint(done)
  /\ UNCHANGED << sale, now, overflow_checks >>

\* a callback of attempt a delivered although the attempt does not expect it:
\* the handler runs as it does for any delivery
duplicate_on_send_with_callback(a, promise_success) ==
  /\ last = Idle
  /\ attempts[a].status \in {"none", "compensated", "completed"}
  /\ attempts[a].status = "compensated" => ~promise_success
  /\ attempts[a].status = "completed" => promise_success
  /\ attempts[a].extra < MaxDuplicates
  /\ Commit(on_send_with_callback_call(Self, promise_success, attempts[a].amount),
            "on_send_with_callback",
            Args(attempts[a].signer, FALSE, 1, attempts[a].amount))
  /\ attempts' = [attempts EXCEPT ![a].extra = @ + 1]
  /\ UNCHANGED << sale, now, mints, overflow_checks >>

duplicate_link_callback(a, account_id, promise_success, seed) ==
  /\ last = Idle
  /\ attempts[a].status \in {"none", "compensated", "completed"}
  /\ attempts[a].status = "compensated" => ~promise_success
  /\ attempts[a].status = "completed" => promise_success
  /\ attempts[a].extra < MaxDuplicates
  /\ LET done == link_callback_call(Self, account_id, attempts[a].mint_for_free,
                                    promise_success, attempts[a].amount, seed)
     IN  /\ Commit(done, "link_callback", Args(account_id, FALSE, 1, attempts[a].amount))
         /\ mints' = mints + early_mint(done)
  /\ attempts' = [attempts EXCEPT ![a].extra = @ + 1]
  /\ UNCHANGED << sale, now, overflow_checks >>

(* -------------------------------- views ------------------------------- *)
\* the sale phase, as the views report it
get_status_view ==
  /\ last = Idle
  /\ last' = [Idle EXCEPT !.op = "get_status", !.value = << get_status(Self) >>]
  /\ UNCHANGED << contract, sale, now, attempts, mints, overflow_checks >>

\* the price of a batch of a + b items, and the prices of its two parts
compute_price_view(a, b) ==
  /\ last = Idle
  /\ counter + a + b <= PriceSize
  /\ last' = [Idle EXCEPT !.op = "compute_price",
                          !.args = Args("", FALSE, a, b),
                          !.value = << compute_price(counter, a + b, sale.price),
                                       compute_price(counter, a, sale.price),
                                       compute_price(counter + a, b, sale.price) >>]
  /\ UNCHANGED << contract, sale, now, attempts, mints, overflow_checks >>

\* the price of a batch, of the batch with one more item, and of the same
\* batch after one more item was issued
price_order_view(num) ==
  /\ last = Idle
  /\ counter + num + 1 <= PriceSize
  /\ last' = [Idle EXCEPT !.op = "price_order",
                          !.args = Args("", FALSE, num, 0),
                          !.value = << compute_price(counter, num, sale.price),
                                       compute_price(counter, num + 1, sale.price),
                                       compute_price(counter + 1, num, sale.price) >>]
  /\ UNCHANGED << contract, sale, now, attempts, mints, overflow_checks >>

\* total_cost for the non-native asset or the native one, next to the native
\* cost it converts
total_cost_view(minter, num, with_token) ==
  /\ last = Idle
  /\ counter + num <= PriceSize
  /\ last' = [Idle EXCEPT !.op = "total_cost",
                          !.args = Args(minter, with_token, num, 0),
                          !.value = << total_cost(Self, num, minter, with_token),
                                       minting_cost(Self, minter, num) >>]
  /\ UNCHANGED << contract, sale, now, attempts, mints, overflow_checks >>

\* the conversion of total_cost under the parameters of a whitelisted token;
\* value: the native cost, token_near, token_boost and the converted cost
cost_in_token_view(cost, token_near, token_boost) ==
  /\ last = Idle
  /\ last' = [Idle EXCEPT !.op = "cost_in_token",
                          !.value = << cost, token_near, token_boost,
                                       cost_in_token(cost, token_near, token_boost) >>]
  /\ UNCHANGED << contract, sale, now, attempts, mints, overflow_checks >>

(* ------------------------------ behaviours ---------------------------- *)
Nums == {1, 2, Extra + 1}
\* << with_cheddar, attached deposit >>
Payments == { << FALSE, 5 >>, << FALSE, 1016 >>, << FALSE, 1020 >>, << FALSE, 2030 >>,
              << TRUE, 5 >>, << TRUE, 1020 >> }
\* the funds that pay for a batch of the whole first generation
BulkAttached == {5550, 560555}
\* << signer, attached deposit >> of a deferred attempt
LinkRequests == { << owner_id, 0 >>, << "alice.near", 1020 >> }
\* the accounts a deferred attempt grants its item to
LinkAccounts == {owner_id} \cup Users
DepositAmounts == {50, 540}
\* None withdraws the whole deposit
WithdrawAmounts == {None, Some(270), Some(440)}
Allowances == {1}

\* Sale::new and the owner's settings of it
sale_of(pre, pub, allowance, limit, royalties) ==
  [ price |-> 1000, presale_price |-> None, presale_start |-> pre,
    public_sale_start |-> pub, allowance |-> allowance, mint_rate_limit |-> limit,
    initial_royalties |-> royalties ]

StandardSale == sale_of(Some(1), Some(2), None, None, Some("royalties"))

SaleConfigs ==
  { StandardSale,
    sale_of(Some(1), Some(2), Some(2), None, None),
    sale_of(Some(1), None, None, Some(2), Some("royalties")) }

NoAttempt ==
  [ status |-> "none", signer |-> owner_id, amount |-> 0, mint_for_free |-> FALSE,
    dec |-> 0, extra |-> 0 ]

\* Contract::new
New ==
  /\ raffle = raffle_new(Size)
  /\ tokens = 0
  /\ pending_tokens = 0
  /\ counter = 0
  /\ whitelist = [a \in Accounts |-> None]
  /\ cheddar_deposits = [a \in Accounts |-> None]
  /\ attempts = [a \in 1..MaxAttempts |-> NoAttempt]
  /\ mints = 0
  /\ overflow_checks \in BOOLEAN
  /\ last = Idle

(* The sale: direct mints through the phases of the sale schedule. *)
Init ==
  /\ New
  /\ sale \in SaleConfigs
  /\ now = 0

Next ==
  \/ \E signer \in Accounts, pay \in Payments, num \in Nums, seed \in 0..MaxSeed :
        small_batch(signer, pay[1], num, pay[2], seed)
  \/ \E signer \in Accounts, attached \in BulkAttached :
        first_generation_batch(signer, attached)
  \/ \E sender_id \in Users, amount \in DepositAmounts : ft_on_transfer(sender_id, amount)
  \/ \E user \in Users, amount \in WithdrawAmounts : withdraw_token(user, amount)
  \/ \E account_id \in Users, allowance \in Allowances :
        add_whitelist_account(account_id, allowance)
  \/ Tick
  \/ Return

Spec == Init /\ [][Next]_vars

(* Deferred attempts interleaved with direct mints, in the public sale. *)
InitDeferred ==
  /\ New
  /\ sale = StandardSale
  /\ now = MaxTime

NextDeferred ==
  \/ \E a \in 1..MaxAttempts, req \in LinkRequests : create_linkdrop(a, req[1], req[2])
  \/ \E a \in 1..MaxAttempts, promise_success \in BOOLEAN :
        on_send_with_callback(a, promise_success)
  \/ \E a \in 1..MaxAttempts, account_id \in LinkAccounts, promise_success \in BOOLEAN,
        seed \in {0, MaxSeed} :
        link_callback(a, account_id, promise_success, seed)
  \/ \E signer \in {owner_id, "alice.near"}, num \in {1, 2}, seed \in {0, MaxSeed} :
        small_batch(signer, FALSE, num, 2030, seed)
  \/ first_generation_batch(owner_id, 5550)
  \/ Return

SpecDeferred == InitDeferred /\ [][NextDeferred]_vars

(* Deferred attempts whose callbacks can be delivered again, or delivered for
   an attempt that was never issued. *)
NextDup ==
  \/ \E a \in 1..MaxAttempts, req \in LinkRequests : create_linkdrop(a, req[1], req[2])
  \/ \E a \in 1..MaxAttempts, promise_success \in BOOLEAN :
        on_send_with_callback(a, promise_success)
  \/ \E a \in 1..MaxAttempts, promise_success \in BOOLEAN, seed \in {0, MaxSeed} :
        link_callback(a, attempts[a].signer, promise_success, seed)
  \/ \E a \in 1..MaxAttempts, promise_success \in BOOLEAN :
        duplicate_on_send_with_callback(a, promise_success)
  \/ \E a \in 1..MaxAttempts, promise_success \in BOOLEAN, seed \in {0, MaxSeed} :
        duplicate_link_callback(a, attempts[a].signer, promise_success, seed)
  \/ first_generation_batch(owner_id, 5550)
  \/ Return

SpecDup == InitDeferred /\ [][NextDup]_vars

(* The sale phase, computed for every schedule, time and supply. *)
Starts == {None} \cup { Some(t) : t \in 1..(MaxTime - 1) }

InitStatus ==
  /\ \E size \in 0..MaxPool :
       /\ raffle = raffle_new(size)
       /\ pending_tokens \in 0..size
  /\ tokens = 0
  /\ counter = 0
  /\ whitelist = [a \in Accounts |-> None]
  /\ cheddar_deposits = [a \in Accounts |-> None]
  /\ attempts = [a \in 1..MaxAttempts |-> NoAttempt]
  /\ mints = 0
  /\ overflow_checks \in BOOLEAN
  /\ last = Idle
  /\ sale \in { sale_of(pre, pub, None, None, None) : pre \in Starts, pub \in Starts }
  /\ now \in 0..MaxTime

NextStatus == get_status_view \/ Return

SpecStatus == InitStatus /\ [][NextStatus]_vars

(* Prices, computed for every number of issued items and pairs of batches. *)
BasePrices == {1, 1000}

InitPrice ==
  /\ \E c \in 0..PriceSize :
       /\ raffle = raffle_new(PriceSize - c)
       /\ tokens = c
       /\ counter = c
  /\ pending_tokens = 0
  /\ whitelist = [a \in Accounts |-> None]
  /\ cheddar_deposits = [a \in Accounts |-> None]
  /\ attempts = [a \in 1..MaxAttempts |-> NoAttempt]
  /\ mints = 0
  /\ overflow_checks \in BOOLEAN
  /\ last = Idle
  /\ sale \in { [StandardSale EXCEPT !.price = p] : p \in BasePrices }
  /\ now = MaxTime

NextPrice ==
  \/ \E a \in 0..MaxBatch, b \in 0..MaxBatch : compute_price_view(a, b)
  \/ \E num \in 0..MaxBatch : price_order_view(num)
  \/ Return

SpecPrice == InitPrice /\ [][NextPrice]_vars

(* total_cost and its conversion, as functions of their inputs. *)
NativeCosts == {0, 999, 1000, 1005, 2010, 2999}
\* admin_set_cheddar_near accepts rates above 100
TokenNears == {101, 300, 1000, 2500}
TokenBoosts == {33, 90, 100}

\* issued counts on both sides of the ends of the first two generations
IssuedCounts == {0, GEN1 - 1, GEN1, GEN1 + 99, GEN1 + 100}

InitCost ==
  /\ \E c \in IssuedCounts :
       /\ raffle = raffle_new(PriceSize - c)
       /\ tokens = c
       /\ counter = c
  /\ pending_tokens = 0
  /\ whitelist = [a \in Accounts |-> None]
  /\ cheddar_deposits = [a \in Accounts |-> None]
  /\ attempts = [a \in 1..MaxAttempts |-> NoAttempt]
  /\ mints = 0
  /\ overflow_checks \in BOOLEAN
  /\ last = Idle
  /\ sale \in { [StandardSale EXCEPT !.price = p] : p \in BasePrices }
  /\ now = MaxTime

NextCost ==
  \/ \E minter \in {owner_id} \cup Users, num \in 0..MaxBatch, with_token \in BOOLEAN :
        total_cost_view(minter, num, with_token)
  \/ \E cost \in NativeCosts, token_near \in TokenNears, token_boost \in TokenBoosts :
        cost_in_token_view(cost, token_near, token_boost)
  \/ Return

SpecCost == InitCost /\ [][NextCost]_vars

(* The scenario of a pool of 1000 at base price 1: the owner mints 600, then
   batches of 10 are minted in the public sale. *)
ScenarioSize == 1000
ScenarioOwnerBatch == 600
ScenarioBatch == 10
\* the storage of a batch of 10 with 10, 70 and 100 on top
ScenarioAttached == {110, 170, 200}

InitScenario ==
  /\ raffle = raffle_new(ScenarioSize)
  /\ tokens = 0
  /\ pending_tokens = 0
  /\ counter = 0
  /\ whitelist = [a \in Accounts |-> None]
  /\ cheddar_deposits = [a \in Accounts |-> None]
  /\ attempts = [a \in 1..MaxAttempts |-> NoAttempt]
  /\ mints = 0
  /\ overflow_checks \in BOOLEAN
  /\ last = Idle
  /\ sale = [StandardSale EXCEPT !.price = 1]
  /\ now = MaxTime

\* the owner's batch, with its storage paid
scenario_owner_batch ==
  /\ Pristine
  /\ nft_mint_many(owner_id, FALSE, ScenarioOwnerBatch,
                   storage_byte_cost * (ScenarioOwnerBatch * StoragePerToken), 0)

scenario_batch(signer, attached, seed) ==
  /\ counter >= ScenarioOwnerBatch
  /\ counter < ScenarioOwnerBatch + ScenarioMints * ScenarioBatch
  /\ nft_mint_many(signer, FALSE, ScenarioBatch, attached, seed)

NextScenario ==
  \/ scenario_owner_batch
  \/ \E signer \in {owner_id} \cup Users, attached \in ScenarioAttached, seed \in {0, MaxSeed} :
        scenario_batch(signer, attached, seed)
  \/ Return

SpecScenario == InitScenario /\ [][NextScenario]_vars

(* ------------------------------ properties ---------------------------- *)
\* the identifiers in the pool
PoolIds(r) == { raffle_get(r, i) : i \in 0..(r.len - 1) }
\* the identifiers the last call granted
Granted(l) == { l.ids[k] : k \in DOMAIN l.ids }
\* the attempts whose asynchronous operation or confirmation is outstanding
InFlight == { a \in DOMAIN attempts : attempts[a].status \in {"issued", "sent"} }

\* C1: No double allocation.  In every step the identifiers a call grants are
\* pairwise distinct, were in the pool before the call and are out of it
\* afterwards, and the pool loses nothing else; so an identifier, once granted,
\* is never granted again.  After k successful draws the pool holds exactly
\* Size - k distinct identifiers.
C1_NoDoubleAllocation ==
  [][ /\ Cardinality(Granted(last')) = Len(last'.ids)
      /\ tokens' = tokens + Len(last'.ids)
      /\ raffle'.len = Size - tokens'
      /\ (raffle' # raffle \/ last'.ids # << >>) =>
            /\ Granted(last') \subseteq PoolIds(raffle)
            /\ PoolIds(raffle') = PoolIds(raffle) \ Granted(last')
            /\ Cardinality(PoolIds(raffle')) = raffle'.len ]_vars

\* the pool is drawn empty by a confirmed deferred mint
C1_Witness ==
  /\ last.op = "link_callback" /\ last.ok /\ Len(last.ids) = 1
  /\ raffle.len = 0 /\ tokens = Size

\* C2: Conservation.  In every state between calls, issued + pending + the
\* remaining supply that tokens_left() reports equals the initial pool size,
\* and the report does not trap.
C2_Conservation ==
  /\ ~tokens_left_traps(Self)
  /\ counter + pending_tokens + tokens_left(Self) = Size

\* one deferred attempt is pending after another was confirmed
C2_Witness ==
  /\ last.op = "link_callback" /\ last.ok
  /\ pending_tokens = 1 /\ counter = GEN1 + 1

\* C3: No oversell under interleaving.  Pending never exceeds the number of
\* identifiers left in the pool, so the available supply is never negative; no
\* call, a confirmed deferred attempt included, finds the pool exhausted; and
\* the number of items granted never exceeds the pool size.
C3_NoOversell ==
  /\ 0 <= pending_tokens
  /\ pending_tokens <= raffle.len
  /\ tokens_left(Self) >= 0
  /\ last.why # "Exhausted"
  /\ tokens <= Size

\* the last identifiers of the pool are all promised to deferred attempts
C3_Witness ==
  /\ last.op = "create_linkdrop" /\ last.ok
  /\ pending_tokens = raffle.len /\ pending_tokens > 1 /\ counter >= GEN1

\* C4: Pending reconciliation.  Every deferred attempt is not yet issued, in
\* flight, Completed or Compensated; Pending was decremented once for an
\* attempt that is Completed or Compensated and not at all for one in flight;
\* and Pending counts exactly the attempts in flight, so it is back at its
\* earlier value once an attempt has had its callbacks.
C4_PendingReconciliation ==
  /\ \A a \in DOMAIN attempts :
       /\ attempts[a].status \in {"none", "issued", "sent", "completed", "compensated"}
       /\ attempts[a].dec = IF attempts[a].status \in {"completed", "compensated"}
                            THEN 1 ELSE 0
  /\ pending_tokens = Cardinality(InFlight)

\* C5: Compensation on failure.  When the operation of an issued attempt
\* reports failure, the attempt is compensated: Pending goes down by 1, the
\* attached funds are refunded in full, no identifier is drawn, and issued, the
\* allowance ledger and the deposit ledger stay as they are; the callback that
\* would grant the item sees the failure and changes nothing.
C5_Compensation ==
  [][ /\ \A a \in DOMAIN attempts :
           (attempts[a].status = "issued" /\ attempts'[a].status \notin {"issued", "sent"}) =>
             /\ attempts'[a].status = "compensated"
             /\ last'.op = "on_send_with_callback" /\ last'.ok
             /\ pending_tokens' = pending_tokens - 1
             /\ last'.refund = attempts[a].amount
             /\ last'.ids = << >> /\ last'.paid = 0
             /\ raffle' = raffle /\ tokens' = tokens /\ counter' = counter
             /\ whitelist' = whitelist /\ cheddar_deposits' = cheddar_deposits
      /\ (last = Idle /\ last'.why = "Promise before Linkdrop callback failed") =>
             /\ contract' = contract
             /\ last'.refund = 0 /\ last'.ids = << >> /\ last'.paid = 0 ]_vars

\* an attempt with funds attached was compensated while another is pending
C5_Witness ==
  /\ last.op = "on_send_with_callback" /\ last.ok
  /\ last.refund = 1020 /\ pending_tokens = 1
  /\ \E a \in DOMAIN attempts : attempts[a].status = "compensated"

\* C6: A callback delivered for an attempt that does not expect it (never
\* issued, or already completed or compensated) while other attempts are
\* pending leaves Pending, issued, the pool and all balances unchanged, and
\* produces no mint and no refund.
C6_DuplicateCallback ==
  [][ ((\E a \in DOMAIN attempts : attempts'[a].extra # attempts[a].extra)
        /\ pending_tokens > 0) =>
        /\ contract' = contract
        /\ last'.ids = << >> /\ last'.refund = 0 ]_vars

\* the phase the priority order of the sale schedule gives
phase_by_priority(remaining, time, presale_start, public_sale_start) ==
  CASE remaining = 0 -> "SoldOut"
    [] remaining # 0 /\ public_sale_start # None /\ time > public_sale_start[1] -> "Open"
    [] remaining # 0 /\ ~(public_sale_start # None /\ time > public_sale_start[1])
         /\ presale_start # None /\ time > presale_start[1] -> "Presale"
    [] OTHER -> "Closed"

\* C7: The sale phase is SoldOut when pool length - pending is 0; otherwise
\* Open when public_sale_start is set and the current time is strictly greater;
\* otherwise Presale when presale_start is set and the current time is strictly
\* greater; otherwise Closed.  An unset timestamp never opens a phase.
C7_Phase ==
  last.op = "get_status" =>
    /\ last.value[1] = phase_by_priority(raffle.len - pending_tokens, now,
                                         sale.presale_start, sale.public_sale_start)
    /\ sale.public_sale_start = None => last.value[1] # "Open"
    /\ sale.presale_start = None => last.value[1] # "Presale"

\* at the very start of the public sale the phase is still Presale
C7_Witness ==
  /\ last.op = "get_status" /\ last.value[1] = "Presale"
  /\ sale.public_sale_start = Some(now)
  /\ pending_tokens > 0

\* a mint call by a privileged account for a batch within the available supply,
\* with the storage of the new records covered by the attached deposit
privileged_mint_step ==
  /\ last = Idle /\ last'.op = "nft_mint_many"
  /\ is_owner(last'.args.signer)
  /\ last'.args.num <= raffle.len - pending_tokens
  /\ last'.args.attached >= storage_byte_cost * (last'.args.num * StoragePerToken)

\* what a privileged mint does: the batch is granted in full at cost 0, the
\* deposit is returned but for the storage, and no ledger entry changes
privileged_mint_effect ==
  /\ last'.ok
  /\ Len(last'.ids) = last'.args.num
  /\ last'.paid = 0
  /\ last'.refund =
       LET left == last'.args.attached
                     - storage_byte_cost * (last'.args.num * StoragePerToken)
       IN  IF left > 1 THEN left ELSE 0
  /\ whitelist' = whitelist
  /\ cheddar_deposits' = cheddar_deposits

\* C8 (as stated): a privileged account can mint in every phase any batch not
\* exceeding the available supply, at cost 0 and without a read or write of
\* the allowance ledger.
C8_PrivilegedMint_AsStated ==
  [][ privileged_mint_step => privileged_mint_effect ]_vars

\* C8 (amended): a privileged account can mint in every phase any batch that
\* exceeds neither the available supply nor the configured mint rate limit, at
\* cost 0 and without a read or write of the allowance ledger.
C8_PrivilegedMint ==
  [][ (privileged_mint_step
        /\ (is_some(sale.mint_rate_limit) => last'.args.num <= unwrap(sale.mint_rate_limit)))
      => privileged_mint_effect ]_vars

\* the backup owner has minted while the sale is closed, under a schedule with
\* an allowance cap
C8_Witness ==
  /\ last.op = "nft_mint_many" /\ last.ok
  /\ last.args.signer = TECH_BACKUP_OWNER /\ last.args.num = 2
  /\ Len(last.ids) = 2 /\ last.paid = 0
  /\ get_status(Self) = "Closed"
  /\ is_some(sale.allowance)

C10_PriceTelescoping ==
  last.op = "compute_price" =>
    /\ ~last.value[1].trap /\ ~last.value[2].trap /\ ~last.value[3].trap
    /\ last.value[1].v = last.value[2].v + last.value[3].v

\* C10, for batches that lie beyond the first generation: the price is
\* defined there, and still not additive
C10_PriceTelescoping_LaterGenerations ==
  (last.op = "compute_price" /\ counter >= GEN1) =>
    last.value[1].v = last.value[2].v + last.value[3].v

\* C11: Flat first generation.  A batch that ends within the first GEN1 items
\* has a price, and the price is the batch size times the base price; a batch
\* of 2 at 554 issued costs twice the base price.
C11_FlatFirstGeneration ==
  last.op = "compute_price" =>
    /\ counter + last.args.num <= GEN1 =>
         /\ ~last.value[2].trap
         /\ last.value[2].v = last.args.num * sale.price
    /\ (counter = GEN1 - 1 /\ last.args.num = 2) =>
         /\ ~last.value[2].trap
         /\ last.value[2].v = 2 * sale.price

\* C11, for the batches that have a price: the one that ends exactly at GEN1
\* is flat, the one that crosses GEN1 is not
C11_FlatWherePriced ==
  (last.op = "compute_price" /\ ~last.value[2].trap) =>
    /\ counter + last.args.num <= GEN1 => last.value[2].v = last.args.num * sale.price
    /\ (counter = GEN1 - 1 /\ last.args.num = 2) => last.value[2].v = 2 * sale.price

\* C12: The price is defined for every issued and batch within the collection,
\* does not go down when the batch grows by one item, and does not go down
\* when one more item has been issued.
C12_PriceMonotonic ==
  last.op = "price_order" =>
    /\ ~last.value[1].trap /\ ~last.value[2].trap /\ ~last.value[3].trap
    /\ last.value[1].v <= last.value[2].v
    /\ last.value[1].v <= last.value[3].v

\* C12, for the batches that have a price: the order holds among them
C12_MonotonicWherePriced ==
  last.op = "price_order" =>
    /\ (~last.value[1].trap /\ ~last.value[2].trap) => last.value[1].v <= last.value[2].v
    /\ (~last.value[1].trap /\ ~last.value[3].trap) => last.value[1].v <= last.value[3].v

\* the first batch of 10 of a regular account after the owner's 600, paid in
\* the native asset with at least its storage and 10 attached
scenario_step ==
  /\ last = Idle /\ counter = ScenarioOwnerBatch
  /\ last'.op = "nft_mint_many" /\ ~is_owner(last'.args.signer)
  /\ last'.args.num = ScenarioBatch /\ ~last'.args.with_cheddar
  /\ last'.args.attached >= storage_byte_cost * (ScenarioBatch * StoragePerToken) + 10

\* C13: Scenario.  In a pool of 1000 at base price 1, after the owner minted
\* 600 at no cost, a regular account that mints 10 in the Open phase with no
\* allowance cap is granted 10 and charged 10 exactly.
C13_Scenario ==
  [][ scenario_step =>
        /\ last'.ok
        /\ Len(last'.ids) = ScenarioBatch
        /\ last'.paid = 10 ]_vars

\* C13, for the calls that settle: the charge is still not 10
C13_ScenarioCharge ==
  [][ (scenario_step /\ last'.ok) => last'.paid = 10 ]_vars

\* a refund of at most 1 is below the dust threshold and is not transferred
transferred(refund_near) == IF refund_near > 1 THEN refund_near ELSE 0

\* a mint call that settles
settled_mint_step == last = Idle /\ last'.op = "nft_mint_many" /\ last'.ok

\* the cost of the granted batch in the native asset, at the count of issued
\* items the call started from
native_cost ==
  IF is_owner(last'.args.signer) THEN 0
  ELSE compute_price(counter, Len(last'.ids), sale.price).v

\* what is left of the attached deposit after the storage of the granted batch
near_left_of_step ==
  last'.args.attached - storage_byte_cost * (Len(last'.ids) * StoragePerToken)

C15_NoRetention ==
  [][ (settled_mint_step /\ ~is_some(sale.initial_royalties)) =>
        /\ cheddar_deposits' = cheddar_deposits
        /\ last'.paid = 0
        /\ last'.refund = transferred(near_left_of_step) ]_vars

\* the part of C15 about a payment in the native asset
C15_NativeRefundedInFull ==
  [][ (settled_mint_step /\ ~is_some(sale.initial_royalties)
         /\ ~last'.args.with_cheddar) =>
        /\ cheddar_deposits' = cheddar_deposits
        /\ last'.paid = 0
        /\ last'.refund = transferred(near_left_of_step) ]_vars

under_allowance ==
  \/ get_status(Self) = "Presale"
  \/ get_status(Self) = "Open" /\ is_some(sale.allowance)

\* a settled mint by a regular account under an allowance
allowance_mint_step ==
  /\ settled_mint_step
  /\ ~is_owner(last'.args.signer)
  /\ under_allowance

\* the allowance the account starts the call with: its entry, or the configured
\* cap when it has none
allowance_before == unwrap_or(whitelist[last'.args.signer], unwrap_or(sale.allowance, 0))

\* C17: Allowance monotonic decrease.  After a settled mint under an allowance
\* that granted g units, the allowance of the account is its allowance before
\* minus g and is not negative, also when the batch takes the last available
\* units of the pool.
C17_AllowanceDecrease ==
  [][ allowance_mint_step =>
        /\ whitelist'[last'.args.signer] = Some(allowance_before - Len(last'.ids))
        /\ allowance_before - Len(last'.ids) >= 0 ]_vars

\* the same, for batches that leave at least one unit available
C17_AllowanceDecrease_UnitsLeft ==
  [][ (allowance_mint_step /\ raffle'.len - pending_tokens' > 0) =>
        /\ whitelist'[last'.args.signer] = Some(allowance_before - Len(last'.ids))
        /\ allowance_before - Len(last'.ids) >= 0 ]_vars

\* a mint call by a regular account, within the configured mint rate limit
regular_mint_step ==
  /\ last = Idle /\ last'.op = "nft_mint_many"
  /\ ~is_owner(last'.args.signer)
  /\ is_some(sale.mint_rate_limit) => last'.args.num <= unwrap(sale.mint_rate_limit)

\* what C18 says of accounts that hold an entry, and of Open without a cap:
\* the granted count is min(requested, entry), a request against an entry of 0
\* fails, and Open without a cap grants the requested count and writes no entry
clamp_effect ==
  LET user == last'.args.signer
      status == get_status(Self)
  IN  /\ (under_allowance /\ is_some(whitelist[user])) =>
            /\ unwrap(whitelist[user]) = 0 =>
                  ~last'.ok /\ last'.why = "Account has no more allowance left"
            /\ last'.ok => Len(last'.ids) = min(last'.args.num, unwrap(whitelist[user]))
      /\ (status = "Open" /\ ~is_some(sale.allowance) /\ last'.ok) =>
            /\ Len(last'.ids) = last'.args.num
            /\ whitelist' = whitelist

\* a first request seeds the entry with the configured cap: the granted count is
\* min(requested, cap) and the entry is left at the cap less the granted count
seeded_effect ==
  /\ last'.why # "Account not on whitelist"
  /\ last'.ok =>
       /\ Len(last'.ids) = min(last'.args.num, unwrap_or(sale.allowance, 0))
       /\ whitelist'[last'.args.signer]
            = Some(unwrap_or(sale.allowance, 0) - Len(last'.ids))

\* C18 (as stated): in Open with a configured cap and in Presale the first
\* request of a regular account with no entry seeds its entry with the
\* configured cap; the granted count is min(requested, entry); a request against
\* an entry of 0 fails; in Open with no cap the granted count is the requested
\* count and no entry is created.
C18_SeedingAndClamp_AsStated ==
  [][ regular_mint_step =>
        /\ clamp_effect
        /\ (under_allowance /\ ~is_some(whitelist[last'.args.signer])) =>
              seeded_effect ]_vars

\* C18 (amended): in Open with a configured cap the first request of a regular
\* account with no entry seeds its entry with the configured cap; in Presale a
\* request of an account with no entry is rejected and no entry is written; the
\* granted count is min(requested, entry); a request against an entry of 0
\* fails; in Open with no cap the granted count is the requested count and no
\* entry is created.
C18_SeedingAndClamp ==
  [][ regular_mint_step =>
        /\ clamp_effect
        /\ ( get_status(Self) = "Open" /\ is_some(sale.allowance)
              /\ ~is_some(whitelist[last'.args.signer]) ) => seeded_effect
        /\ ( get_status(Self) = "Presale"
              /\ ~is_some(whitelist[last'.args.signer]) ) =>
              /\ ~last'.ok /\ last'.why = "Account not on whitelist"
              /\ whitelist' = whitelist ]_vars

\* a regular account with no entry asked for more than the cap in the public
\* sale: it was granted the cap and its entry, seeded by the call, is at 0
C18_Witness ==
  /\ last.op = "nft_mint_many" /\ last.ok
  /\ ~is_owner(last.args.signer)
  /\ is_some(sale.allowance)
  /\ last.args.num > unwrap(sale.allowance)
  /\ Len(last.ids) = unwrap(sale.allowance)
  /\ whitelist[last.args.signer] = Some(0)

\* C19 (as stated): the cost in a non-native asset is cost * 1000 /
\* conversion_rate / 100 * boost, left to right with truncation at each
\* division; total_cost returns this for a non-native asset and the native cost
\* otherwise.
C19_AssetCost_AsStated ==
  /\ last.op = "cost_in_token" =>
        last.value[4] = ((((last.value[1] * 1000) \div last.value[2]) \div 100)
                          * last.value[3])
  /\ last.op = "total_cost" =>
        /\ last.value[1].trap = last.value[2].trap
        /\ last.value[1].v =
             IF last.args.with_cheddar
             THEN (((last.value[2].v * 1000) \div cheddar_near) \div 100) * cheddar_boost
             ELSE last.value[2].v

\* C19 (amended): the cost in a non-native asset is cost / 1000 *
\* conversion_rate / 100 * boost, left to right with truncation at each
\* division; total_cost returns this for a non-native asset and the native cost
\* otherwise.
C19_AssetCost ==
  /\ last.op = "cost_in_token" =>
        last.value[4] = ((((last.value[1] \div 1000) * last.value[2]) \div 100)
                          * last.value[3])
  /\ last.op = "total_cost" =>
        /\ last.value[1].trap = last.value[2].trap
        /\ last.value[1].v =
             IF last.args.with_cheddar
             THEN (((last.value[2].v \div 1000) * cheddar_near) \div 100) * cheddar_boost
             ELSE last.value[2].v

\* a native cost of 2999 converted at a rate of 300 and a boost of 90: the
\* division by 1000 drops 999 and the converted cost is 540
C19_Witness ==
  /\ last.op = "cost_in_token"
  /\ last.value = << 2999, 300, 90, 540 >>

\* the count a mint request is left with after the allowance clamp
allowed_count ==
  LET user == last'.args.signer
      num == last'.args.num
  IN  IF is_owner(user) THEN num
      ELSE IF get_status(Self) = "Presale"
           THEN min(num, unwrap_or(whitelist[user], 0))
      ELSE IF is_some(sale.allowance)
           THEN min(num, unwrap_or(whitelist[user], unwrap(sale.allowance)))
      ELSE num

\* a mint request that passes the rate limit, the phase gate and the allowance
\* gate and is left with more units than the positive number available
over_supply_step ==
  /\ last = Idle /\ last'.op = "nft_mint_many"
  /\ is_some(sale.mint_rate_limit) => last'.args.num <= unwrap(sale.mint_rate_limit)
  /\ is_owner(last'.args.signer) \/ get_status(Self) \in {"Presale", "Open"}
  /\ is_owner(last'.args.signer) \/ get_status(Self) # "Presale"
       \/ is_some(whitelist[last'.args.signer])
  /\ allowed_count > 0
  /\ raffle.len - pending_tokens > 0
  /\ allowed_count > raffle.len - pending_tokens

\* C20 (as stated): a mint request that passes phase and allowance gating and
\* asks for more units than the positive number available is clamped to the
\* available count and granted that many units, not rejected (for requests
\* paid in the native asset with funds that cover the available count).
C20_BatchClamp_AsStated ==
  [][ (over_supply_step /\ ~last'.args.with_cheddar
        /\ last'.args.attached >=
             storage_byte_cost * ((raffle.len - pending_tokens) * StoragePerToken)
               + (IF is_owner(last'.args.signer) THEN 0
                  ELSE compute_price(counter, raffle.len - pending_tokens, sale.price).v)) =>
        /\ last'.ok
        /\ Len(last'.ids) = raffle.len - pending_tokens ]_vars

\* C20 (amended): a mint request that passes phase and allowance gating and
\* asks for more units than the positive number available is rejected: nothing
\* is granted and the pool and the issued count are as before.
C20_BatchRejected ==
  [][ over_supply_step =>
        /\ ~last'.ok /\ last'.why = "Not NFTs left to mint"
        /\ last'.ids = << >>
        /\ raffle' = raffle /\ counter' = counter /\ tokens' = tokens ]_vars

\* a regular account asked in the public sale for more units than the pool
\* holds and was turned away, with units still available
C20_Witness ==
  /\ last.op = "nft_mint_many" /\ ~last.ok
  /\ last.why = "Not NFTs left to mint"
  /\ ~is_owner(last.args.signer)
  /\ get_status(Self) = "Open"
  /\ raffle.len - pending_tokens > 0
  /\ last.args.num > raffle.len - pending_tokens

\* C21: Confirmation of a deferred attempt.  A success callback that returns
\* decrements Pending by 1, draws exactly one identifier (pool length - 1),
\* advances issued by exactly 1 and leaves every allowance entry unchanged; on
\* the mint-for-free path no settlement runs: the callback returns, no deposit
\* balance changes and no native funds are captured or refunded.
C21_Confirmation ==
  [][ \A a \in DOMAIN attempts :
        (attempts[a].status = "sent" /\ attempts'[a].status # "sent") =>
          /\ last'.op = "link_callback"
          /\ last'.ok =>
                /\ attempts'[a].status = "completed"
                /\ pending_tokens' = pending_tokens - 1
                /\ raffle'.len = raffle.len - 1
                /\ Len(last'.ids) = 1
                /\ tokens' = tokens + 1
                /\ counter' = counter + 1
                /\ whitelist' = whitelist
                /\ cheddar_deposits' = cheddar_deposits
          /\ attempts[a].mint_for_free =>
                /\ last'.ok
                /\ last'.paid = 0 /\ last'.refund = 0 ]_vars

\* a mint-for-free attempt was confirmed before the first generation was sold,
\* while another attempt is pending
C21_Witness ==
  /\ last.op = "link_callback" /\ last.ok
  /\ Len(last.ids) = 1 /\ last.paid = 0
  /\ pending_tokens = 1 /\ counter < GEN1
  /\ \E a \in DOMAIN attempts :
        attempts[a].status = "completed" /\ attempts[a].mint_for_free

\* C22 (as stated): in every state issued + pending + len(Pool) = N, where
\* len(Pool) is the number of identifiers the raffle holds, not reduced by
\* pending, also while a deferred attempt is in flight.
C22_DataModel_AsStated ==
  counter + pending_tokens + raffle.len = Size

\* C22 (amended): in every state issued + len(Pool) = N, where len(Pool) is
\* the number of identifiers the raffle holds, also while a deferred attempt
\* is in flight: a pending attempt has reserved a unit of the pool and has not
\* taken it out.  The pool and the supply of the registry add up to N as well.
C22_DataModel ==
  /\ counter + raffle.len = Size
  /\ raffle.len + tokens = Size

\* a deferred attempt is in flight after items were issued
C22_Witness ==
  /\ pending_tokens > 0 /\ InFlight # {}
  /\ counter > GEN1
  /\ last.op = "create_linkdrop" /\ last.ok

\* a withdraw_token call that returns
withdrawal_step == last = Idle /\ last'.op = "withdraw_token" /\ last'.ok

\* the balance of the caller of the step before and after it
balance_before == unwrap_or(cheddar_deposits[last'.args.signer], 0)
balance_after == unwrap_or(cheddar_deposits'[last'.args.signer], 0)

\* C23: Withdrawal conservation.  For every withdraw_token call that returns
\* (withdraw all, the full balance, or a partial amount) the amount sent to the
\* account equals the amount by which its deposit decreased; a withdrawal of
\* `amount` sends exactly `amount` and leaves balance_before - amount.
C23_WithdrawalConservation ==
  [][ withdrawal_step =>
        /\ last'.value[2] = balance_before - balance_after
        /\ is_some(last'.value[1]) =>
              /\ last'.value[2] = unwrap(last'.value[1])
              /\ balance_after = balance_before - unwrap(last'.value[1]) ]_vars

\* the ledger side of C23, and the amount sent when the entry is closed
C23_LedgerAndClosingWithdrawals ==
  [][ withdrawal_step =>
        /\ is_some(last'.value[1]) =>
              balance_after = balance_before - unwrap(last'.value[1])
        /\ balance_after = 0 => last'.value[2] = balance_before ]_vars

\* a first deposit: ft_on_transfer for an account with no entry
first_deposit_step ==
  /\ last = Idle /\ last'.op = "ft_on_transfer"
  /\ ~is_some(cheddar_deposits[last'.args.signer])

\* a partial withdrawal: withdraw_token for an amount below the balance
partial_withdrawal_step ==
  /\ last = Idle /\ last'.op = "withdraw_token"
  /\ is_some(cheddar_deposits[last'.args.signer])
  /\ is_some(last'.value[1])
  /\ unwrap(last'.value[1]) < balance_before

\* C24: Deposit thresholds.  A first deposit is accepted exactly when the
\* amount is at least one whole token and is otherwise rejected with no entry
\* created; a partial withdrawal is accepted exactly when the remaining balance
\* is at least one whole token (a remainder of exactly one token is allowed)
\* and is otherwise rejected with the ledger unchanged and nothing sent.
C24_DepositThresholds ==
  [][ /\ first_deposit_step =>
            /\ last'.ok <=> last'.args.num >= get_one_token_in_yocto
            /\ ~last'.ok => cheddar_deposits' = cheddar_deposits
      /\ partial_withdrawal_step =>
            /\ last'.ok <=>
                  balance_before - unwrap(last'.value[1]) >= get_one_token_in_yocto
            /\ ~last'.ok => cheddar_deposits' = cheddar_deposits /\ Len(last'.value) = 1
    ]_vars

\* the same with a partial withdrawal accepted exactly when the remaining
\* balance is more than one whole token
C24_DepositThresholds_StrictRemainder ==
  [][ /\ first_deposit_step =>
            /\ last'.ok <=> last'.args.num >= get_one_token_in_yocto
            /\ ~last'.ok => cheddar_deposits' = cheddar_deposits
      /\ partial_withdrawal_step =>
            /\ last'.ok <=>
                  balance_before - unwrap(last'.value[1]) > get_one_token_in_yocto
            /\ ~last'.ok => cheddar_deposits' = cheddar_deposits /\ Len(last'.value) = 1
    ]_vars

====
